---- MODULE Spec2Model ----
(***************************************************************************)
(* Transactional outbox of the product service.                            *)
(*                                                                         *)
(* Writers are concurrent ProductService.CreateProduct / DeleteProduct     *)
(* calls on the outbox path (db and eventRepo set).  Each call owns one    *)
(* SQL transaction; its statements are separate steps so that other calls  *)
(* and the event worker interleave with them.  The database is PostgreSQL  *)
(* at its default READ COMMITTED level: a statement sees the committed     *)
(* rows plus the writes of its own transaction, and a DELETE of a row that *)
(* another open transaction has deleted waits for that transaction.        *)
(*                                                                         *)
(* Workers are EventWorker instances (Start / processPendingEvents /       *)
(* processEvent) using an EventRepository bound to the database, not to a  *)
(* transaction.                                                            *)
(***************************************************************************)
EXTENDS Integers, Sequences, FiniteSets, TLC

\* ---------------------------------------------------------------- bounds
MaxProducts == 2      \* product ids that uuid.New() can hand out
MaxEvents == 2        \* event ids that uuid.New() can hand out
MaxTime == 1          \* readings of time.Now(): 0..MaxTime
MaxFaults == 2        \* failures injected by the environment (database, SQS)

\* ------------------------------------------------------ program constants
WorkerBatchLimit == 100
DefaultPaginationLimit == 50
EventStatusPending == "pending"
EventStatusProcessed == "processed"
EventStatusFailed == "failed"

Writers == {"w1", "w2"}
AllWorkers == {"k1", "k2"}
ProductIds == 1..MaxProducts
EventIds == 1..MaxEvents
Names == {"Laptop"}
Prices == {1299}
NoId == 0
EmptyFn == [x \in {} |-> x]
NULL == <<>>

VARIABLES
  now,        \* current reading of time.Now()
  faults,     \* failures injected so far
  products,   \* committed rows of table products: id -> row
  events,     \* committed rows of table events: id -> row
  usedPids,   \* product ids generated so far (uuid.New never repeats)
  usedEids,   \* event ids generated so far
  wpc,        \* writer -> position inside CreateProduct / DeleteProduct
  wl,         \* writer -> local variables of the call
  txn,        \* writer -> writes of its open transaction
  ret,        \* the operation and the outcome of the call that returned last
  committed,  \* history: product mutations whose transaction committed
  active,     \* the EventWorker instances that were started
  kpc,        \* worker -> position inside Start / processPendingEvents
  batch,      \* worker -> rows returned by eventRepo.List in this tick
  idx,        \* worker -> index of the range loop over batch
  procErr,    \* worker -> result of processEvent for batch[idx]
  tickPub,    \* worker -> event ids handed to the publisher in this tick
  pubOk,      \* history: event ids of the publisher calls that succeeded
  pubFail,    \* history: event ids of the publisher calls that failed
  ctxDone,    \* the context main handed to the workers is cancelled
  wt,         \* the WithinTransaction call in progress, its outcome
  pg,         \* a client paging through GET /products, and the table it reads
  cs,         \* the notification service's Consumer and the queue it polls
  rp          \* a repository shared by concurrent WithinTransaction calls

vars == <<now, faults, products, events, usedPids, usedEids, wpc, wl, txn, ret,
          committed, active, kpc, batch, idx, procErr, tickPub, pubOk, pubFail,
          ctxDone, wt, pg, cs, rp, rp>>

dbVars == <<products, events>>
writerVars == <<usedPids, usedEids, wpc, wl, txn, ret, committed>>
workerVars == <<active, kpc, batch, idx, procErr, tickPub, pubOk, pubFail>>
libVars == <<wt, pg, cs, rp, rp>>

\* ------------------------------------------------------------ data model
\* sqs.ProductMessage
ProductMessage(action, pid, name, price) ==
  [action |-> action, product_id |-> pid, name |-> name, price |-> price]

\* json.Marshal(msg): the serialized payload, field by field
Marshal(msg) == <<msg.action, msg.product_id, msg.name, msg.price>>

\* json.Unmarshal(data, &msg) succeeds
CanUnmarshal(data) == Len(data) = 4

\* json.Unmarshal(data, &msg)
Unmarshal(data) == ProductMessage(data[1], data[2], data[3], data[4])

\* model.Event after InitMeta, as Create inserts it
NewEvent(eid, eventType, data, status, t) ==
  [id |-> eid, eventType |-> eventType, eventData |-> data,
   status |-> IF status = "" THEN EventStatusPending ELSE status,
   createdAt |-> t, processedAt |-> NULL]

\* model.Product after InitMeta
NewProduct(pid, name, price, t) ==
  [id |-> pid, name |-> name, price |-> price, createdAt |-> t]

NoTxn == [open |-> FALSE, prodIns |-> EmptyFn, prodDel |-> {}, evIns |-> EmptyFn]
OpenTxn == [open |-> TRUE, prodIns |-> EmptyFn, prodDel |-> {}, evIns |-> EmptyFn]
NoLocals == [op |-> "none", id |-> NoId, name |-> "", price |-> 0, found |-> FALSE]
NoRet == [op |-> "none", ok |-> FALSE, err |-> {}]
NoErr == {}
ErrDriver == {"driver: bad connection"}
ErrNoRows == {"sql: no rows in result set"}

\* fmt.Errorf(msg + ": %w", err): a new error that wraps err
Wrap(msg, err) == {msg} \cup err

NoPage == [rows |-> EmptyFn, limit |-> 0, token |-> <<>>, paginator |-> <<>>,
           seen |-> <<>>, pages |-> 0, done |-> TRUE, bad |-> FALSE,
           born |-> EmptyFn, gone |-> {}]
NoCall == [pc |-> "idle", repo |-> "", began |-> FALSE, writes |-> EmptyFn,
           fnErr |-> NoErr, result |-> NoErr, commits |-> 0, rollbacks |-> 0]
Callers == {"a", "b"}
NoRepo == [txn |-> <<>>, tx |-> [c \in Callers |-> <<>>], table |-> {}, n |-> 0]
NoConsumer == [pc |-> "idle", bodies |-> EmptyFn, queue |-> {}, batch |-> <<>>,
               i |-> 0, processed |-> {}, deleted |-> {}, ret |-> NoErr,
               result |-> NoErr]

\* ------------------------------------------------------------------ Init
InitCommon ==
  /\ now = 0
  /\ faults = 0
  /\ products = EmptyFn
  /\ events = EmptyFn
  /\ usedPids = {}
  /\ usedEids = {}
  /\ wpc = [w \in Writers |-> "idle"]
  /\ wl = [w \in Writers |-> NoLocals]
  /\ txn = [w \in Writers |-> NoTxn]
  /\ ret = NoRet
  /\ committed = {}
  /\ kpc = [k \in AllWorkers |-> "wait"]
  /\ batch = [k \in AllWorkers |-> <<>>]
  /\ idx = [k \in AllWorkers |-> 0]
  /\ procErr = [k \in AllWorkers |-> FALSE]
  /\ tickPub = [k \in AllWorkers |-> <<>>]
  /\ pubOk = {}
  /\ pubFail = {}
  /\ ctxDone = FALSE
  /\ wt = NoCall
  /\ rp = NoRepo

\* main starts one EventWorker
Init == InitCommon /\ active = {"k1"} /\ pg = NoPage /\ cs = NoConsumer

\* two product-service processes against the same database
InitTwoWorkers == InitCommon /\ active = AllWorkers /\ pg = NoPage /\ cs = NoConsumer

\* ----------------------------------------------------------- environment
CanFail == faults < MaxFaults
Fault == faults' = faults + 1
NoFault == UNCHANGED faults

\* time passes
Tick ==
  /\ now < MaxTime
  /\ now' = now + 1
  /\ UNCHANGED <<faults, ctxDone, libVars, dbVars, writerVars, workerVars>>

\* ---------------------------------------------- SQL transaction (sql.Tx)
\* tx.Commit(): the writes of the transaction become the committed rows
CommitProducts(w) ==
  [p \in (DOMAIN products \ txn[w].prodDel) \cup DOMAIN txn[w].prodIns |->
     IF p \in DOMAIN txn[w].prodIns THEN txn[w].prodIns[p] ELSE products[p]]

CommitEvents(w) ==
  [e \in DOMAIN events \cup DOMAIN txn[w].evIns |->
     IF e \in DOMAIN txn[w].evIns THEN txn[w].evIns[e] ELSE events[e]]

\* ids that calls already begun will still ask uuid.New() for
PendingProductIds == Cardinality({w \in Writers : wpc[w] = "c_product"})
PendingEventIds ==
  Cardinality({w \in Writers :
     wpc[w] \in {"c_product", "c_event", "d_find", "d_delete", "d_event"}})

\* variant: the error is returned without the deferred tx.Rollback()
ReturnError_NoRollback(w, err) ==
  /\ wpc' = [wpc EXCEPT ![w] = "idle"]
  /\ UNCHANGED txn
  /\ ret' = [op |-> wl[w].op, ok |-> FALSE, err |-> err]
  /\ wl' = [wl EXCEPT ![w] = NoLocals]

\* return ..., err with the deferred tx.Rollback(): the writes are dropped
ReturnError(w, err) ==
  /\ wpc' = [wpc EXCEPT ![w] = "idle"]
  /\ txn' = [txn EXCEPT ![w] = NoTxn]
  /\ ret' = [op |-> wl[w].op, ok |-> FALSE, err |-> err]
  /\ wl' = [wl EXCEPT ![w] = NoLocals]

\* --------------------------------------------- ProductService.CreateProduct
\* ps.db.BeginTx
CreateBegin(w) ==
  /\ wpc[w] = "idle"
  /\ Cardinality(ProductIds \ usedPids) > PendingProductIds
  /\ Cardinality(EventIds \ usedEids) > PendingEventIds
  /\ \E name \in Names, price \in Prices :
       \/ /\ NoFault
          /\ wpc' = [wpc EXCEPT ![w] = "c_product"]
          /\ wl' = [wl EXCEPT ![w] = [op |-> "create", id |-> NoId, name |-> name,
                                      price |-> price, found |-> FALSE]]
          /\ txn' = [txn EXCEPT ![w] = OpenTxn]
          /\ UNCHANGED ret
       \/ /\ CanFail /\ Fault
          /\ ret' = [op |-> "create", ok |-> FALSE, err |-> ErrDriver]
          /\ UNCHANGED <<wpc, wl, txn>>
  /\ UNCHANGED <<now, ctxDone, libVars, dbVars, usedPids, usedEids, committed, workerVars>>

\* variant: the INSERT goes through the repository that is not bound to the
\* transaction
TxInsertProduct_NoTx(w, pid, row) ==
  /\ products' = (pid :> row) @@ products
  /\ UNCHANGED txn

\* txProductRepo.Create: INSERT INTO products, through the transaction
TxInsertProduct(w, pid, row) ==
  /\ txn' = [txn EXCEPT ![w].prodIns = (pid :> row) @@ @]
  /\ UNCHANGED products

CreateInsertProduct(w) ==
  /\ wpc[w] = "c_product"
  /\ \E pid \in ProductIds \ usedPids :
       /\ usedPids' = usedPids \cup {pid}
       /\ \/ /\ NoFault
             /\ TxInsertProduct(w, pid, NewProduct(pid, wl[w].name, wl[w].price, now))
             /\ wl' = [wl EXCEPT ![w].id = pid]
             /\ wpc' = [wpc EXCEPT ![w] = "c_event"]
             /\ UNCHANGED ret
          \/ /\ CanFail /\ Fault
             /\ ReturnError(w, ErrDriver)
             /\ UNCHANGED products
  /\ UNCHANGED <<now, ctxDone, libVars, events, usedEids, committed, workerVars>>

\* variant: the event is inserted through ps.eventRepo, outside the transaction
TxInsertEvent_NoTx(w, eid, ev) ==
  /\ events' = (eid :> ev) @@ events
  /\ UNCHANGED txn

\* txEventRepo.Create: INSERT INTO events, through the transaction
TxInsertEvent(w, eid, ev) ==
  /\ txn' = [txn EXCEPT ![w].evIns = (eid :> ev) @@ @]
  /\ UNCHANGED events

\* variant: the payload is built before the product insert, with no id yet
CreatedMessage_BeforeInsert(createdProduct) ==
  ProductMessage("created", NoId, createdProduct.name, createdProduct.price)

\* the payload of the event, built from the product that Create returned
CreatedMessage(createdProduct) ==
  ProductMessage("created", createdProduct.id, createdProduct.name,
                 createdProduct.price)

CreateInsertEvent(w) ==
  /\ wpc[w] = "c_event"
  /\ LET createdProduct == wl[w]
         msg == CreatedMessage(createdProduct)
     IN \E eid \in EventIds \ usedEids :
          /\ usedEids' = usedEids \cup {eid}
          /\ \/ /\ NoFault
                /\ TxInsertEvent(w, eid, NewEvent(eid, "product.created", Marshal(msg),
                                                  EventStatusPending, now))
                /\ wpc' = [wpc EXCEPT ![w] = "c_commit"]
                /\ UNCHANGED <<wl, ret>>
             \/ /\ CanFail /\ Fault
                /\ ReturnError(w, ErrDriver)
                /\ UNCHANGED events
  /\ UNCHANGED <<now, ctxDone, libVars, products, usedPids, committed, workerVars>>

\* tx.Commit and return createdProduct, nil
CreateCommit(w) ==
  /\ wpc[w] = "c_commit"
  /\ \/ /\ NoFault
        /\ products' = CommitProducts(w)
        /\ events' = CommitEvents(w)
        /\ committed' = committed \cup {<<"created", wl[w].id>>}
        /\ wpc' = [wpc EXCEPT ![w] = "idle"]
        /\ txn' = [txn EXCEPT ![w] = NoTxn]
        /\ ret' = [op |-> "create", ok |-> TRUE, err |-> NoErr]
        /\ wl' = [wl EXCEPT ![w] = NoLocals]
     \/ /\ CanFail /\ Fault
        /\ ReturnError(w, ErrDriver)
        /\ UNCHANGED <<dbVars, committed>>
  /\ UNCHANGED <<now, ctxDone, libVars, usedPids, usedEids, workerVars>>

\* --------------------------------------------- ProductService.DeleteProduct
\* ps.db.BeginTx
DeleteBegin(w) ==
  /\ wpc[w] = "idle"
  /\ Cardinality(EventIds \ usedEids) > PendingEventIds
  /\ \E id \in ProductIds :
       \/ /\ NoFault
          /\ wpc' = [wpc EXCEPT ![w] = "d_find"]
          /\ wl' = [wl EXCEPT ![w] = [op |-> "delete", id |-> id, name |-> "",
                                      price |-> 0, found |-> FALSE]]
          /\ txn' = [txn EXCEPT ![w] = OpenTxn]
          /\ UNCHANGED ret
       \/ /\ CanFail /\ Fault
          /\ ret' = [op |-> "delete", ok |-> FALSE, err |-> ErrDriver]
          /\ UNCHANGED <<wpc, wl, txn>>
  /\ UNCHANGED <<now, ctxDone, libVars, dbVars, usedPids, usedEids, committed, workerVars>>

\* txProductRepo.FindByID: SELECT * FROM products WHERE id = $1
DeleteFind(w) ==
  /\ wpc[w] = "d_find"
  /\ \/ /\ wl[w].id \in DOMAIN products
        /\ NoFault
        /\ wl' = [wl EXCEPT ![w].name = products[wl[w].id].name,
                            ![w].price = products[wl[w].id].price,
                            ![w].found = TRUE]
        /\ wpc' = [wpc EXCEPT ![w] = "d_delete"]
        /\ UNCHANGED <<txn, ret>>
     \/ /\ wl[w].id \notin DOMAIN products      \* sql.ErrNoRows
        /\ NoFault
        /\ ReturnError(w, Wrap("product not found", ErrNoRows))
     \/ /\ CanFail /\ Fault
        /\ ReturnError(w, ErrDriver)
  /\ UNCHANGED <<now, ctxDone, libVars, dbVars, usedPids, usedEids, committed, workerVars>>

\* variant: a DELETE does not wait for the row lock of another transaction
RowLocked_Never(w, id) == FALSE

\* the row is locked by the uncommitted DELETE of another transaction
RowLocked(w, id) == \E v \in Writers \ {w} : id \in txn[v].prodDel

\* variant: the DELETE goes through the repository that is not bound to the
\* transaction
TxDeleteProduct_NoTx(w, id) ==
  /\ products' = [p \in DOMAIN products \ {id} |-> products[p]]
  /\ UNCHANGED txn

\* txProductRepo.DeleteByID: DELETE FROM products WHERE id = $1, through the
\* transaction; the result is RowsAffected
TxDeleteProduct(w, id) ==
  /\ txn' = [txn EXCEPT ![w].prodDel = @ \cup {id}]
  /\ UNCHANGED products

DeleteDelete(w) ==
  /\ wpc[w] = "d_delete"
  /\ ~RowLocked(w, wl[w].id)
  /\ \/ /\ wl[w].id \in DOMAIN products         \* rowsAffected = 1
        /\ NoFault
        /\ TxDeleteProduct(w, wl[w].id)
        /\ wpc' = [wpc EXCEPT ![w] = "d_event"]
        /\ UNCHANGED <<wl, ret>>
     \/ /\ wl[w].id \notin DOMAIN products      \* rowsAffected = 0
        /\ NoFault
        /\ ReturnError(w, {"product not found"})
        /\ UNCHANGED products
     \/ /\ CanFail /\ Fault
        /\ ReturnError(w, ErrDriver)
        /\ UNCHANGED products
  /\ UNCHANGED <<now, ctxDone, libVars, events, usedPids, usedEids, committed, workerVars>>

\* variant: the payload carries the id of the request only
DeletedMessage_IdOnly(product) == ProductMessage("deleted", product.id, "", 0)

\* the payload of the event, built from the product that FindByID returned
DeletedMessage(product) ==
  ProductMessage("deleted", product.id, product.name, product.price)

\* txEventRepo.Create of the product.deleted event
DeleteInsertEvent(w) ==
  /\ wpc[w] = "d_event"
  /\ LET msg == DeletedMessage(wl[w])
     IN \E eid \in EventIds \ usedEids :
          /\ usedEids' = usedEids \cup {eid}
          /\ \/ /\ NoFault
                /\ TxInsertEvent(w, eid, NewEvent(eid, "product.deleted", Marshal(msg),
                                                  EventStatusPending, now))
                /\ wpc' = [wpc EXCEPT ![w] = "d_commit"]
                /\ UNCHANGED <<wl, ret>>
             \/ /\ CanFail /\ Fault
                /\ ReturnError(w, ErrDriver)
                /\ UNCHANGED events
  /\ UNCHANGED <<now, ctxDone, libVars, products, usedPids, committed, workerVars>>

\* tx.Commit and return nil
DeleteCommit(w) ==
  /\ wpc[w] = "d_commit"
  /\ \/ /\ NoFault
        /\ products' = CommitProducts(w)
        /\ events' = CommitEvents(w)
        /\ committed' = committed \cup {<<"deleted", wl[w].id>>}
        /\ wpc' = [wpc EXCEPT ![w] = "idle"]
        /\ txn' = [txn EXCEPT ![w] = NoTxn]
        /\ ret' = [op |-> "delete", ok |-> TRUE, err |-> NoErr]
        /\ wl' = [wl EXCEPT ![w] = NoLocals]
     \/ /\ CanFail /\ Fault
        /\ ReturnError(w, ErrDriver)
        /\ UNCHANGED <<dbVars, committed>>
  /\ UNCHANGED <<now, ctxDone, libVars, usedPids, usedEids, workerVars>>

\* ---------------------------------------------------------- EventRepository
\* (created_at, id) < (created_at, id), the row comparison of the ORDER BY
RowLess(a, b) ==
  \/ a.createdAt < b.createdAt
  \/ a.createdAt = b.createdAt /\ a.id < b.id

\* variant: the status filter is never applied
Matches_NoFilter(row, values) == TRUE

\* WHERE 1=1 [AND status = $1]: the status filter applies when the query has it
Matches(row, values) ==
  "status" \in DOMAIN values => row.status = values["status"]

\* ORDER BY created_at DESC, id DESC
RECURSIVE OrderDesc(_)
OrderDesc(rows) ==
  IF rows = {} THEN <<>>
  ELSE LET top == CHOOSE r \in rows : \A o \in rows \ {r} : RowLess(o, r)
       IN <<top>> \o OrderDesc(rows \ {top})

\* LIMIT $n, with the default for a non-positive limit
EffectiveLimit(limit) == IF limit <= 0 THEN DefaultPaginationLimit ELSE limit

\* EventRepository.List on the rows its executor sees
List(rows, values, limit) ==
  LET ordered == OrderDesc({rows[e] : e \in {x \in DOMAIN rows : Matches(rows[x], values)}})
      n == EffectiveLimit(limit)
  IN IF Len(ordered) <= n THEN ordered ELSE SubSeq(ordered, 1, n)

\* variant: the UPDATE sets the status only
UpdateStatus_NoTimestamp(rows, id, status, t) ==
  IF id \in DOMAIN rows THEN [rows EXCEPT ![id].status = status] ELSE rows

\* variant: the UPDATE sets created_at as well
UpdateStatus_ResetCreatedAt(rows, id, status, t) ==
  IF id \in DOMAIN rows
  THEN [rows EXCEPT ![id].status = status, ![id].processedAt = <<t>>,
                    ![id].createdAt = t]
  ELSE rows

\* EventRepository.UpdateStatus:
\* UPDATE events SET status = $1, processed_at = $2 WHERE id = $3
UpdateStatus(rows, id, status, t) ==
  IF id \in DOMAIN rows
  THEN [rows EXCEPT ![id].status = status,
                    ![id].processedAt =
                       IF status \in {EventStatusProcessed, EventStatusFailed}
                       THEN <<t>> ELSE NULL]
  ELSE rows

\* --------------------------------------------------------------- EventWorker
\* variant: the query carries no status filter
PendingQueryValues_NoStatus == EmptyFn

\* the query of processPendingEvents
PendingQueryValues == [status |-> EventStatusPending]

\* processPendingEvents up to its range loop: the pending events are listed
\* with Limit: limit; a failed listing is returned to Start, which logs it
ProcessPendingEvents(k, limit) ==
  /\ k \in active
  /\ kpc[k] = "wait"
  /\ \/ /\ ~ctxDone /\ NoFault
        /\ LET resources == List(events, PendingQueryValues, limit)
           IN /\ batch' = [batch EXCEPT ![k] = resources]
              /\ idx' = [idx EXCEPT ![k] = IF resources = <<>> THEN 0 ELSE 1]
              /\ kpc' = [kpc EXCEPT ![k] = IF resources = <<>> THEN "wait" ELSE "process"]
              /\ tickPub' = [tickPub EXCEPT ![k] = <<>>]
     \/ /\ ~ctxDone /\ CanFail /\ Fault          \* List returns an error
        /\ UNCHANGED <<batch, idx, kpc, tickPub>>
     \/ /\ ctxDone /\ NoFault                    \* List returns ctx.Err()
        /\ UNCHANGED <<batch, idx, kpc, tickPub>>
  /\ UNCHANGED <<now, ctxDone, libVars, dbVars, writerVars, active, procErr, pubOk, pubFail>>

\* Start: a tick of the ticker; processPendingEvents lists the pending events
WorkerTick(k) == ProcessPendingEvents(k, WorkerBatchLimit)

\* variant: processEvent hands the event to the publisher without looking at
\* the result of json.Unmarshal
WorkerProcess_IgnoreUnmarshal(k) ==
  /\ k \in active
  /\ kpc[k] = "process"
  /\ LET event == batch[k][idx[k]]
     IN /\ tickPub' = [tickPub EXCEPT ![k] = Append(@, event.id)]
        /\ \/ /\ ~ctxDone /\ NoFault
              /\ procErr' = [procErr EXCEPT ![k] = FALSE]
              /\ pubOk' = pubOk \cup {event.id}
              /\ UNCHANGED pubFail
           \/ /\ \/ ~ctxDone /\ CanFail /\ Fault
                 \/ ctxDone /\ NoFault
              /\ procErr' = [procErr EXCEPT ![k] = TRUE]
              /\ pubFail' = pubFail \cup {event.id}
              /\ UNCHANGED pubOk
  /\ kpc' = [kpc EXCEPT ![k] = "update"]
  /\ UNCHANGED <<now, ctxDone, libVars, dbVars, writerVars, active, batch, idx>>

\* processEvent for batch[idx]: unmarshal the payload, hand it to the publisher
WorkerProcess(k) ==
  /\ k \in active
  /\ kpc[k] = "process"
  /\ LET event == batch[k][idx[k]]
     IN IF ~CanUnmarshal(event.eventData)
        THEN /\ procErr' = [procErr EXCEPT ![k] = TRUE]
             /\ UNCHANGED <<tickPub, faults, pubOk, pubFail>>
        ELSE /\ tickPub' = [tickPub EXCEPT ![k] = Append(@, event.id)]
             /\ \/ /\ ~ctxDone /\ NoFault        \* SendMessage succeeded
                   /\ procErr' = [procErr EXCEPT ![k] = FALSE]
                   /\ pubOk' = pubOk \cup {event.id}
                   /\ UNCHANGED pubFail
                \/ /\ \/ ~ctxDone /\ CanFail /\ Fault  \* SendMessage failed
                      \/ ctxDone /\ NoFault          \* or returned ctx.Err()
                   /\ procErr' = [procErr EXCEPT ![k] = TRUE]
                   /\ pubFail' = pubFail \cup {event.id}
                   /\ UNCHANGED pubOk
  /\ kpc' = [kpc EXCEPT ![k] = "update"]
  /\ UNCHANGED <<now, ctxDone, libVars, dbVars, writerVars, active, batch, idx>>

\* variant: the two branches of the loop are swapped
StatusFor_Swapped(err) == IF err THEN EventStatusProcessed ELSE EventStatusFailed

\* variant: a failed event is put back for a retry
StatusFor_Retry(err) == IF err THEN EventStatusPending ELSE EventStatusProcessed

\* the status the loop records for the result of processEvent
StatusFor(err) == IF err THEN EventStatusFailed ELSE EventStatusProcessed

\* variant: an error of one event ends processPendingEvents
LoopNext_StopOnError(k) ==
  IF idx[k] < Len(batch[k]) /\ ~procErr[k] /\ faults' = faults
  THEN /\ idx' = [idx EXCEPT ![k] = @ + 1]
       /\ kpc' = [kpc EXCEPT ![k] = "process"]
       /\ UNCHANGED <<batch, tickPub>>
  ELSE /\ idx' = [idx EXCEPT ![k] = 0]
       /\ kpc' = [kpc EXCEPT ![k] = "wait"]
       /\ batch' = [batch EXCEPT ![k] = <<>>]
       /\ tickPub' = [tickPub EXCEPT ![k] = <<>>]

\* the range loop moves to the next resource or processPendingEvents returns
LoopNext(k) ==
  IF idx[k] < Len(batch[k])
  THEN /\ idx' = [idx EXCEPT ![k] = @ + 1]
       /\ kpc' = [kpc EXCEPT ![k] = "process"]
       /\ UNCHANGED <<batch, tickPub>>
  ELSE /\ idx' = [idx EXCEPT ![k] = 0]
       /\ kpc' = [kpc EXCEPT ![k] = "wait"]
       /\ batch' = [batch EXCEPT ![k] = <<>>]
       /\ tickPub' = [tickPub EXCEPT ![k] = <<>>]

\* eventRepo.UpdateStatus(event.ID, failed | processed); an error is logged
WorkerUpdate(k) ==
  /\ k \in active
  /\ kpc[k] = "update"
  /\ LET event == batch[k][idx[k]]
     IN \/ /\ ~ctxDone /\ NoFault
           /\ events' = UpdateStatus(events, event.id, StatusFor(procErr[k]), now)
        \/ /\ \/ ~ctxDone /\ CanFail /\ Fault       \* the UPDATE fails
              \/ ctxDone /\ NoFault               \* or returns ctx.Err()
           /\ UNCHANGED events
  /\ LoopNext(k)
  /\ UNCHANGED <<now, ctxDone, libVars, products, writerVars, active, procErr, pubOk, pubFail>>

\* ---------------------------------------------------------------- the system
Next ==
  \/ Tick
  \/ \E w \in Writers : CreateBegin(w)
  \/ \E w \in Writers : CreateInsertProduct(w)
  \/ \E w \in Writers : CreateInsertEvent(w)
  \/ \E w \in Writers : CreateCommit(w)
  \/ \E w \in Writers : DeleteBegin(w)
  \/ \E w \in Writers : DeleteFind(w)
  \/ \E w \in Writers : DeleteDelete(w)
  \/ \E w \in Writers : DeleteInsertEvent(w)
  \/ \E w \in Writers : DeleteCommit(w)
  \/ \E k \in AllWorkers : WorkerTick(k)
  \/ \E k \in AllWorkers : WorkerProcess(k)
  \/ \E k \in AllWorkers : WorkerUpdate(k)

\* the product service as main starts it: one EventWorker
Spec == Init /\ [][Next]_vars

\* two EventWorker instances polling the same events table
SpecTwoWorkers == InitTwoWorkers /\ [][Next]_vars

\* the worker keeps ticking, and a tick that has begun runs to its end
FairSpec ==
  /\ Spec
  /\ \A k \in AllWorkers :
       WF_vars(WorkerTick(k)) /\ WF_vars(WorkerProcess(k)) /\ WF_vars(WorkerUpdate(k))

\* ===================================================================== claims
\* committed event rows of one type whose payload names product pid
EventsFor(evs, eventType, pid) ==
  {e \in DOMAIN evs :
     /\ evs[e].eventType = eventType
     /\ CanUnmarshal(evs[e].eventData)
     /\ Unmarshal(evs[e].eventData).product_id = pid}

\* event rows that a step added to the committed table
NewEvents == DOMAIN events' \ DOMAIN events

\* a CreateProduct call of w that had begun its transaction returns in this step
CreateReturns(w) ==
  wpc[w] \in {"c_product", "c_event", "c_commit"} /\ wpc'[w] = "idle"

\* a DeleteProduct call of w that had begun its transaction returns in this step
DeleteReturns(w) ==
  wpc[w] \in {"d_find", "d_delete", "d_event", "d_commit"} /\ wpc'[w] = "idle"

\* worker k hands batch[idx] to the publisher in this step
Publishes(k) == Len(tickPub'[k]) > Len(tickPub[k])

\* worker k finishes the status update of batch[idx] in this step
Updates(k) == kpc[k] = "update" /\ kpc'[k] # "update"

\* the UPDATE of this step returned an error
UpdateFailed == faults' # faults

\* the product id of the call of w that returns in this step
CallId(w) == IF wl[w].id # NoId THEN wl[w].id ELSE CHOOSE p \in usedPids' \ usedPids : TRUE

\* C1: when CreateProduct returns success, the committed state holds the new
\* product row and exactly one new event row for it, pending; when it
\* returns an error after its transaction began, the committed state holds
\* neither the product row nor an event row for it.
C1_CreateAtomic ==
  [][\A w \in Writers : CreateReturns(w) =>
       IF ret'.ok
       THEN /\ CallId(w) \in DOMAIN products'
            /\ Cardinality(NewEvents) = 1
            /\ EventsFor(events', "product.created", CallId(w)) = NewEvents
            /\ \A e \in NewEvents : events'[e].status = EventStatusPending
       ELSE /\ CallId(w) \notin DOMAIN products'
            /\ EventsFor(events', "product.created", CallId(w)) = {}
            /\ NewEvents = {}]_vars

\* a create returned an error next to a product that another create committed
\* with its event
C1_Witness ==
  /\ ret.op = "create" /\ ~ret.ok
  /\ usedPids \ DOMAIN products # {}
  /\ \E p \in DOMAIN products : EventsFor(events, "product.created", p) # {}

\* C2: when DeleteProduct returns success, the product row is gone and
\* exactly one new pending product.deleted event row exists; when it returns an
\* error, it has removed no product row and added no event row.
C2_DeleteAtomic ==
  [][\A w \in Writers : DeleteReturns(w) =>
       IF ret'.ok
       THEN /\ wl[w].id \notin DOMAIN products'
            /\ Cardinality(NewEvents) = 1
            /\ EventsFor(events', "product.deleted", wl[w].id) = NewEvents
            /\ \A e \in NewEvents : events'[e].status = EventStatusPending
       ELSE /\ products' = products
            /\ events' = events
            /\ <<"deleted", wl[w].id>> \notin committed' =>
                 /\ wl[w].found => wl[w].id \in DOMAIN products'
                 /\ EventsFor(events', "product.deleted", wl[w].id) = {}]_vars

\* a delete returned success: the row is gone and its event is committed
C2_Witness ==
  /\ ret.op = "delete" /\ ret.ok
  /\ \E p \in usedPids \ DOMAIN products :
       /\ EventsFor(events, "product.deleted", p) # {}
       /\ EventsFor(events, "product.created", p) # {}

\* the product mutation that the payload of an event row narrates
MutationOf(row) ==
  <<Unmarshal(row.eventData).action, Unmarshal(row.eventData).product_id>>

\* event rows written by a transaction that is still open
Uncommitted == UNION {DOMAIN txn[w].evIns : w \in Writers}

\* the ids of the rows a worker listed in its current tick
BatchIds(k) == {batch[k][i].id : i \in 1..Len(batch[k])}

\* C3: the worker lists and publishes committed events only: every listed row
\* is a committed row that no open transaction wrote, every message handed to
\* the publisher narrates a committed product mutation, and every mutation
\* commits together with an event row for it that is pending at commit time.
C3_OnlyCommittedEventsPublished ==
  /\ [](/\ \A k \in active : BatchIds(k) \subseteq DOMAIN events \ Uncommitted
        /\ \A e \in pubOk \cup pubFail :
             e \in DOMAIN events /\ MutationOf(events[e]) \in committed
        /\ \A m \in committed :
             \E e \in DOMAIN events : MutationOf(events[e]) = m)
  /\ [][/\ \A k \in active : Publishes(k) =>
             MutationOf(batch[k][idx[k]]) \in committed
        /\ \A m \in committed' \ committed :
             \E e \in NewEvents :
               MutationOf(events'[e]) = m /\ events'[e].status = EventStatusPending]_vars

\* the worker has published a committed event while another transaction
\* holds an event row that is not committed yet
C3_Witness ==
  /\ pubOk # {}
  /\ Uncommitted # {}
  /\ \E k \in active : kpc[k] = "process"

\* C4: with the one worker main starts, an event whose status is processed or
\* failed keeps its status and its processedAt in every later step, and a
\* status changes only from pending to processed or from pending to failed.
C4_TerminalStatus ==
  [][\A e \in DOMAIN events :
       /\ e \in DOMAIN events'
       /\ events[e].status # EventStatusPending =>
            /\ events'[e].status = events[e].status
            /\ events'[e].processedAt = events[e].processedAt
       /\ events'[e].status # events[e].status =>
            /\ events[e].status = EventStatusPending
            /\ events'[e].status \in {EventStatusProcessed, EventStatusFailed}]_vars

\* an event reached failed in an earlier cycle and the worker is in a later
\* cycle, whose batch does not hold that event
C4_Witness ==
  \E k \in active :
    /\ kpc[k] = "process"
    /\ \E e \in DOMAIN events \ BatchIds(k) :
         events[e].status = EventStatusFailed /\ events[e].processedAt # <<now>>

\* C5: an event row, committed or written by an open transaction, has
\* processedAt set if and only if its status is not pending.
C5_ProcessedAtIffNotPending ==
  /\ \A e \in DOMAIN events :
       (events[e].processedAt # NULL) <=> (events[e].status # EventStatusPending)
  /\ \A w \in Writers : \A e \in DOMAIN txn[w].evIns :
       (txn[w].evIns[e].processedAt # NULL) <=>
          (txn[w].evIns[e].status # EventStatusPending)

\* the table holds a pending row without processedAt next to a row that the
\* worker has updated, with processedAt
C5_Witness ==
  /\ \E e \in DOMAIN events :
       events[e].status = EventStatusPending /\ events[e].processedAt = NULL
  /\ \E e \in DOMAIN events :
       events[e].status # EventStatusPending /\ events[e].processedAt # NULL

\* C6 as stated: when processEvent returned nil for a pending event (the
\* publisher succeeded), the event is processed with processedAt set once the
\* worker is done with it.
C6_ProcessedOnPublishSuccess ==
  [][\A k \in active : (Updates(k) /\ ~procErr[k]) =>
       LET e == batch[k][idx[k]].id
       IN /\ events'[e].status = EventStatusProcessed
          /\ events'[e].processedAt # NULL]_vars

\* C6 amended: when the publisher succeeded and the UpdateStatus call that
\* follows returns no error, the event is processed with processedAt set; when
\* UpdateStatus returns an error the event row is left as it was.
C6_ProcessedWhenUpdateSucceeds ==
  [][\A k \in active : (Updates(k) /\ ~procErr[k]) =>
       LET e == batch[k][idx[k]].id
       IN IF UpdateFailed
          THEN events'[e] = events[e]
          ELSE /\ events'[e].status = EventStatusProcessed
               /\ events'[e].processedAt = <<now>>]_vars

\* an event was published with success and is processed with processedAt set
C6_Witness ==
  \E e \in pubOk :
    /\ events[e].status = EventStatusProcessed
    /\ events[e].processedAt # NULL
    /\ e \notin pubFail

C8_EveryEventEventuallyPublished ==
  \A e \in EventIds : [](e \in DOMAIN events => <>(e \in pubOk))

C10_OldestFirst ==
  \A k \in active : \A j \in 1..Len(tickPub[k]) : \A i \in 1..Len(batch[k]) :
    batch[k][i].createdAt < events[tickPub[k][j]].createdAt =>
      \E h \in 1..(j - 1) : tickPub[k][h] = batch[k][i].id

\* ------------------------------------------------- the worker behind a backlog
\* the Limit of processPendingEvents, scaled down so that a backlog larger
\* than one batch fits the model
BacklogLimit == 1

\* the rows a later listing can still return: the pending ones
PendingIds(rows) == {e \in DOMAIN rows : rows[e].status = EventStatusPending}

\* the pending rows with created_at renumbered in the order of the listing;
\* a row that left pending is never listed again and is dropped
Compact(rows) ==
  [e \in PendingIds(rows) |->
     [rows[e] EXCEPT !.createdAt =
        Cardinality({o \in PendingIds(rows) : RowLess(rows[o], rows[e])}) + 1]]

\* a CreateProduct transaction commits: its event row, created after every
\* row of the table, becomes visible as pending
BacklogCommit ==
  /\ \E eid \in EventIds, pid \in ProductIds, name \in Names, price \in Prices :
       /\ eid \notin PendingIds(events)
       /\ \A k \in active : eid \notin BatchIds(k)
       /\ LET kept == Compact(events)
              row == NewEvent(eid, "product.created",
                              Marshal(ProductMessage("created", pid, name, price)),
                              EventStatusPending, Cardinality(DOMAIN kept) + 1)
          IN events' = [e \in DOMAIN kept \cup {eid} |->
                          IF e = eid THEN row ELSE kept[e]]
  /\ UNCHANGED <<now, ctxDone, libVars, faults, products, writerVars, workerVars>>

BacklogNext ==
  \/ BacklogCommit
  \/ \E k \in AllWorkers : ProcessPendingEvents(k, BacklogLimit)
  \/ \E k \in AllWorkers : WorkerProcess(k)
  \/ \E k \in AllWorkers : WorkerUpdate(k)

\* producers commit events for ever while the worker keeps ticking and every
\* tick that has begun runs to its end
BacklogSpec ==
  /\ Init
  /\ [][BacklogNext]_vars
  /\ \A k \in AllWorkers :
       /\ WF_vars(ProcessPendingEvents(k, BacklogLimit))
       /\ WF_vars(WorkerProcess(k))
       /\ WF_vars(WorkerUpdate(k))

\* C11 as stated: while the worker keeps ticking, every pending event is
\* eventually part of some batch, also when new events keep being created.
C11_PendingEventuallyListed ==
  \A e \in EventIds :
    [](e \in PendingIds(events) => <>(\E k \in active : e \in BatchIds(k)))

\* C12: two workers polling one events table have no claim step: a listing
\* returns every committed pending row, also the rows another worker holds
\* in its batch, and every listed row is handed to the publisher, also when
\* the other worker has handled it meanwhile; so one event can be published
\* twice.
C12_NoClaimStep ==
  [][\A k \in active :
       /\ (kpc[k] = "wait" /\ kpc'[k] = "process") =>
             {batch'[k][i].id : i \in 1..Len(batch'[k])} = PendingIds(events)
       /\ (kpc[k] = "process" /\ kpc'[k] = "update") =>
             /\ Publishes(k)
             /\ tickPub'[k][Len(tickPub'[k])] = batch[k][idx[k]].id]_vars

\* both workers have handed event e to the publisher in their current ticks
\* and no publish of e has failed: e was published twice
C12_Witness ==
  \E e \in DOMAIN events :
    /\ \A k \in AllWorkers :
         k \in active /\ \E j \in 1..Len(tickPub[k]) : tickPub[k][j] = e
    /\ e \in pubOk
    /\ e \notin pubFail

Cancel ==
  /\ ~ctxDone
  /\ ctxDone' = TRUE
  /\ UNCHANGED <<now, faults, libVars, dbVars, writerVars, workerVars>>

\* variant: the loop ranges over the ticker only and has no Done case
SelectDone_Never == FALSE

\* case <-ctx.Done() of the select in Start is ready
SelectDone == ctxDone

\* Start: the select takes the Done case and Start returns
WorkerStop(k) ==
  /\ k \in active
  /\ kpc[k] = "wait"
  /\ SelectDone
  /\ kpc' = [kpc EXCEPT ![k] = "stopped"]
  /\ UNCHANGED <<now, ctxDone, libVars, faults, dbVars, writerVars,
                 active, batch, idx, procErr, tickPub, pubOk, pubFail>>

\* main returns after workerCancel() without waiting for Start: the process
\* ends, its goroutines end where they are and the database rolls back the
\* transactions of its connections
MainReturn ==
  /\ ctxDone
  /\ \E w \in Writers : wpc[w] # "exited"
  /\ kpc' = [k \in AllWorkers |-> IF k \in active THEN "exited" ELSE kpc[k]]
  /\ wpc' = [w \in Writers |-> "exited"]
  /\ wl' = [w \in Writers |-> NoLocals]
  /\ txn' = [w \in Writers |-> NoTxn]
  /\ UNCHANGED <<now, ctxDone, libVars, faults, dbVars, usedPids, usedEids, ret, committed,
                 active, batch, idx, procErr, tickPub, pubOk, pubFail>>

ShutdownNext ==
  \/ Next
  \/ Cancel
  \/ \E k \in AllWorkers : WorkerStop(k)
  \/ MainReturn

\* the product service until it is shut down; each worker goroutine keeps
\* running: a select with a ready case takes it, a tick that began runs on
ShutdownSpec ==
  /\ Init
  /\ [][ShutdownNext]_vars
  /\ \A k \in AllWorkers :
       WF_vars(WorkerStop(k)) /\ WF_vars(WorkerProcess(k)) /\ WF_vars(WorkerUpdate(k))

\* Start of worker k is no longer running
Returned(k) == kpc[k] \in {"stopped", "exited"}

\* C14: once the context is cancelled, Start of every worker eventually
\* returns, and after the cancellation no listing hands the loop a new batch:
\* the worker finishes at most the tick that was in progress.
C14_StartReturns ==
  /\ [](ctxDone => <>(\A k \in active : Returned(k)))
  /\ [][ctxDone => \A k \in active : ~(kpc[k] = "wait" /\ kpc'[k] = "process")]_vars

\* the context was cancelled while a tick was in progress, and Start returned
\* by itself leaving the rest of the work pending
C14_Witness ==
  \E k \in active :
    /\ kpc[k] = "stopped"
    /\ pubFail # {}
    /\ faults = 0
    /\ \E e \in DOMAIN events : events[e].status = EventStatusPending

\* C15 as stated: a cancellation during a tick does not cut off the work in
\* flight: when the publisher accepted an event and the database is
\* available, the status update that follows records the event as processed.
C15_InFlightCompletes ==
  [][\A k \in active :
       (Updates(k) /\ ~procErr[k] /\ faults' = faults) =>
          events'[batch[k][idx[k]].id].status = EventStatusProcessed]_vars

\* --------------------------------------------------------- WithinTransaction
\* An error value is the set of the errors that errors.Is finds in its chain;
\* nil is the empty set.
ErrFn == {"fn error"}

\* the error returned when fn failed and tx.Rollback() failed as well:
\* ProductRepository wraps rbErr with %w and prints err with %v,
\* EventRepository prints rbErr with %v and wraps err with %w
RollbackFailed(repo, rbErr, err) ==
  IF repo = "product"
  THEN Wrap("failed to rollback transaction", rbErr)
  ELSE Wrap("transaction failed", err)

Repos == {"product", "event"}

\* variant: the error of BeginTx is dropped and fn is called all the same
WtBegin_ErrorDropped(repo) ==
  /\ wt.pc = "idle"
  /\ \/ /\ NoFault
        /\ wt' = [NoCall EXCEPT !.pc = "fn", !.repo = repo, !.began = TRUE]
     \/ /\ CanFail /\ Fault
        /\ wt' = [NoCall EXCEPT !.pc = "fn", !.repo = repo]
  /\ UNCHANGED <<now, ctxDone, pg, cs, rp, dbVars, writerVars, workerVars>>

\* r.db.BeginTx; on an error WithinTransaction returns without calling fn
WtBegin(repo) ==
  /\ wt.pc = "idle"
  /\ \/ /\ NoFault
        /\ wt' = [NoCall EXCEPT !.pc = "fn", !.repo = repo, !.began = TRUE]
     \/ /\ CanFail /\ Fault
        /\ wt' = [NoCall EXCEPT !.pc = "done", !.repo = repo,
                                !.result = Wrap("failed to begin transaction", ErrDriver)]
  /\ UNCHANGED <<now, ctxDone, pg, cs, rp, dbVars, writerVars, workerVars>>

\* fn calls txRepo.Create: the row is written inside the transaction
WtCreate ==
  /\ wt.pc = "fn"
  /\ \/ /\ wt.repo = "product"
        /\ \E pid \in ProductIds \ usedPids, name \in Names, price \in Prices :
             /\ usedPids' = usedPids \cup {pid}
             /\ wt' = [wt EXCEPT !.writes = [i \in DOMAIN @ \cup {pid} |->
                          IF i = pid THEN NewProduct(pid, name, price, now) ELSE @[i]]]
        /\ UNCHANGED usedEids
     \/ /\ wt.repo = "event"
        /\ \E eid \in EventIds \ usedEids :
             /\ usedEids' = usedEids \cup {eid}
             /\ wt' = [wt EXCEPT !.writes = [i \in DOMAIN @ \cup {eid} |->
                          IF i = eid
                          THEN NewEvent(eid, "product.created", <<>>, EventStatusPending, now)
                          ELSE @[i]]]
        /\ UNCHANGED usedPids
  /\ UNCHANGED <<now, faults, ctxDone, pg, cs, rp, dbVars, wpc, wl, txn, ret, committed, workerVars>>

\* fn returns nil or an error
WtFnReturn ==
  /\ wt.pc = "fn"
  /\ \E err \in {NoErr, ErrFn} : wt' = [wt EXCEPT !.pc = "end", !.fnErr = err]
  /\ UNCHANGED <<now, faults, ctxDone, pg, cs, rp, dbVars, writerVars, workerVars>>

\* the rows of the transaction become rows of the repository's table
Visible(table, writes) ==
  [i \in DOMAIN table \cup DOMAIN writes |->
     IF i \in DOMAIN writes THEN writes[i] ELSE table[i]]

\* after fn: tx.Rollback() when fn returned an error, tx.Commit() otherwise
WtEnd ==
  /\ wt.pc = "end"
  /\ IF wt.fnErr # NoErr
     THEN /\ \/ /\ NoFault
                /\ wt' = [wt EXCEPT !.pc = "done", !.result = wt.fnErr,
                                    !.rollbacks = @ + 1]
             \/ /\ CanFail /\ Fault
                /\ wt' = [wt EXCEPT !.pc = "done", !.rollbacks = @ + 1,
                                    !.result = RollbackFailed(wt.repo, ErrDriver, wt.fnErr)]
          /\ UNCHANGED dbVars
     ELSE \/ /\ NoFault
             /\ wt' = [wt EXCEPT !.pc = "done", !.result = NoErr, !.commits = @ + 1]
             /\ products' = IF wt.repo = "product" THEN Visible(products, wt.writes)
                            ELSE products
             /\ events' = IF wt.repo = "event" THEN Visible(events, wt.writes)
                          ELSE events
          \/ /\ CanFail /\ Fault
             /\ wt' = [wt EXCEPT !.pc = "done", !.commits = @ + 1,
                                 !.result = Wrap("failed to commit transaction", ErrDriver)]
             /\ UNCHANGED dbVars
  /\ UNCHANGED <<now, ctxDone, pg, cs, rp, writerVars, workerVars>>

\* the caller has the result; a next call may begin
WtReturn ==
  /\ wt.pc = "done"
  /\ wt' = NoCall
  /\ UNCHANGED <<now, faults, ctxDone, pg, cs, rp, dbVars, writerVars, workerVars>>

TxNext ==
  \/ Tick
  \/ \E repo \in Repos : WtBegin(repo)
  \/ WtCreate
  \/ WtFnReturn
  \/ WtEnd
  \/ WtReturn

\* callers of WithinTransaction, one call after the other
TxSpec == Init /\ [][TxNext]_vars

\* the rows of the call's transaction that are rows of its table
WtVisible ==
  {i \in DOMAIN wt.writes :
     IF wt.repo = "product" THEN i \in DOMAIN products ELSE i \in DOMAIN events}

\* C16 as stated: when fn returns an error, none of its writes is visible,
\* the transaction saw one rollback and no commit, and the error the caller
\* gets is still recognisable as fn's error, also when the rollback failed;
\* when fn returns nil the transaction saw one commit and no rollback, and all
\* its writes are visible once the commit succeeded.
C16_FnErrorRecognisable ==
  (wt.pc = "done" /\ wt.began) =>
     IF wt.fnErr # NoErr
     THEN /\ WtVisible = {}
          /\ wt.rollbacks = 1 /\ wt.commits = 0
          /\ wt.fnErr \subseteq wt.result
     ELSE /\ wt.commits = 1 /\ wt.rollbacks = 0
          /\ wt.result = NoErr => WtVisible = DOMAIN wt.writes

\* C17: a transaction that fails is never partially applied. When BeginTx
\* fails, fn is not called, the call wrote nothing, the tables are as before
\* and the caller gets an error; when Commit fails, the caller gets an error
\* and none of the rows fn wrote is visible.
C17_NeverPartiallyApplied ==
  /\ [](~wt.began =>
          /\ wt.pc \in {"idle", "done"}
          /\ wt.writes = EmptyFn
          /\ wt.pc = "done" => wt.result # NoErr)
  /\ [][(wt.pc = "idle" /\ wt'.pc = "done") => UNCHANGED <<dbVars, usedPids, usedEids>>]_vars
  /\ []((wt.pc = "done" /\ wt.began /\ wt.fnErr = NoErr) =>
          \/ wt.result = NoErr /\ WtVisible = DOMAIN wt.writes
          \/ wt.result # NoErr /\ WtVisible = {})

\* fn wrote two rows and returned nil, the commit failed
C17_Witness ==
  /\ wt.pc = "done"
  /\ wt.began
  /\ wt.fnErr = NoErr
  /\ wt.result = Wrap("failed to commit transaction", ErrDriver)
  /\ Cardinality(DOMAIN wt.writes) = 2

MaxRows == 3

\* the instants and zones of the rows: whole seconds, fractions that end in
\* zeros, a single nanosecond, zones east and west of UTC
PageTimes ==
  { [sec |-> 0, nsec |-> 0, off |-> 0],
    [sec |-> 0, nsec |-> 120000000, off |-> 0],
    [sec |-> 1, nsec |-> 5, off |-> 60],
    [sec |-> 1, nsec |-> 5, off |-> 0 - 330] }

Sym(kind, a, b) == <<kind, a, b>>
Comma == Sym("comma", 0, 0)
Dot == Sym("dot", 0, 0)

\* t.Equal(u)
SameInstant(t, u) == t.sec = u.sec /\ t.nsec = u.nsec

\* t.Before(u)
TimeLess(t, u) == t.sec < u.sec \/ (t.sec = u.sec /\ t.nsec < u.nsec)

\* the nine digits of the nanoseconds
Digits9(n) == [i \in 1..9 |-> Sym("digit", (n \div (10 ^ (9 - i))) % 10, 0)]

\* .999999999 of the layout: trailing zeros are not printed
RECURSIVE TrimZeros(_)
TrimZeros(ds) ==
  IF ds = <<>> THEN <<>>
  ELSE IF ds[Len(ds)][2] = 0 THEN TrimZeros(SubSeq(ds, 1, Len(ds) - 1)) ELSE ds

\* Z07:00 of the layout
ZoneText(off) ==
  IF off = 0 THEN Sym("Z", 0, 0)
  ELSE IF off > 0 THEN Sym("+", off \div 60, off % 60)
  ELSE Sym("-", (0 - off) \div 60, (0 - off) % 60)

\* 2006-01-02T15:04:05 of the layout: the wall clock of the zone
WallText(t) == Sym("wall", t.sec + 60 * t.off, 0)

\* variant: the layout is time.RFC3339, which prints no fraction
FormatTime_Seconds(t) == <<WallText(t), ZoneText(t.off)>>

\* t.Format(time.RFC3339Nano)
FormatTime(t) ==
  <<WallText(t)>>
    \o (IF t.nsec = 0 THEN <<>> ELSE <<Dot>> \o TrimZeros(Digits9(t.nsec)))
    \o <<ZoneText(t.off)>>

\* base64.StdEncoding.EncodeToString
Base64Encode(bytes) == <<"base64", bytes>>

\* base64.StdEncoding.DecodeString
\* the empty string decodes to no bytes; a text that is not base64 is
\* <<"raw", chars>>
Base64Decode(text) ==
  IF text = <<>> THEN [ok |-> TRUE, bytes |-> <<>>]
  ELSE IF text[1] = "base64" THEN [ok |-> TRUE, bytes |-> text[2]]
  ELSE [ok |-> FALSE, bytes |-> <<>>]

\* Paginator.Encode: base64 of "<created_at>,<id>"
Encode(t) ==
  Base64Encode(FormatTime(t.LastCreatedAt) \o <<Comma>> \o <<Sym("uuid", t.LastID, 0)>>)

\* strings.Split(str, ",")
RECURSIVE Split(_)
Split(str) ==
  IF \A i \in 1..Len(str) : str[i] # Comma
  THEN <<str>>
  ELSE LET i == CHOOSE j \in 1..Len(str) :
                   str[j] = Comma /\ \A h \in 1..(j - 1) : str[h] # Comma
       IN <<SubSeq(str, 1, i - 1)>> \o Split(SubSeq(str, i + 1, Len(str)))

\* the nanoseconds of a printed fraction
RECURSIVE FractionValue(_, _)
FractionValue(ds, i) ==
  IF i > Len(ds) THEN 0 ELSE ds[i][2] * (10 ^ (9 - i)) + FractionValue(ds, i + 1)

\* the offset in minutes of a printed zone
ZoneValue(z) ==
  IF z[1] = "Z" THEN 0
  ELSE IF z[1] = "+" THEN 60 * z[2] + z[3] ELSE 0 - (60 * z[2] + z[3])

\* time.Parse(time.RFC3339Nano, str)
ParseTime(str) ==
  LET n == Len(str)
      shaped == /\ n >= 2
                /\ str[1][1] = "wall"
                /\ str[n][1] \in {"Z", "+", "-"}
                /\ n > 2 => /\ str[2] = Dot
                            /\ n \in 4..12
                            /\ \A i \in 3..(n - 1) : str[i][1] = "digit"
  IN IF ~shaped THEN [ok |-> FALSE, t |-> NULL]
     ELSE [ok |-> TRUE,
           t |-> [sec |-> str[1][2] - 60 * ZoneValue(str[n]),
                  nsec |-> IF n = 2 THEN 0 ELSE FractionValue(SubSeq(str, 3, n - 1), 1),
                  off |-> ZoneValue(str[n])]]

\* uuid.Parse(str)
ParseUUID(str) ==
  IF Len(str) = 1 /\ str[1][1] = "uuid"
  THEN [ok |-> TRUE, id |-> str[1][2]]
  ELSE [ok |-> FALSE, id |-> NoId]

ErrInvalidPaginationToken == {"token is invalid"}

\* DecodePageToken; a *Paginator is <<>> for nil and <<p>> otherwise, err is
\* the chain of the returned error
DecodePageToken(encodedToken) ==
  LET decoded == Base64Decode(encodedToken)
      tokenParts == Split(decoded.bytes)
      failed(err) == [ok |-> FALSE, paginator |-> <<>>, err |-> err]
  IN IF ~decoded.ok
     THEN failed(Wrap("failed to decode base64 token", {"illegal base64 data"}))
     ELSE IF Len(tokenParts) # 2
     THEN failed(Wrap("invalid token format", ErrInvalidPaginationToken))
     ELSE IF ~ParseTime(tokenParts[1]).ok
     THEN failed(Wrap("failed to parse token timestamp", {"parsing time"}))
     ELSE IF ~ParseUUID(tokenParts[2]).ok
     THEN failed(Wrap("failed to parse token ID", {"invalid UUID"}))
     ELSE [ok |-> TRUE,
           paginator |-> <<[LastID |-> ParseUUID(tokenParts[2]).id,
                            LastCreatedAt |-> ParseTime(tokenParts[1]).t]>>,
           err |-> NoErr]

\* ------------------------------------------------------------ GET /products
maxPaginationLimit == 1000

Min(a, b) == IF a < b THEN a ELSE b

\* variant: the requested limit is not capped
QueryLimit_NoCap(limit) ==
  IF limit > 0 THEN limit ELSE DefaultPaginationLimit

\* Query.ApplyPagination: the limit of the query
QueryLimit(limit) ==
  IF limit > 0 THEN Min(maxPaginationLimit, limit) ELSE DefaultPaginationLimit

\* (created_at, id) < (created_at, id) on product rows
ProductRowLess(a, b) ==
  \/ TimeLess(a.createdAt, b.createdAt)
  \/ SameInstant(a.createdAt, b.createdAt) /\ a.id < b.id

\* variant: the cursor compares created_at only
CursorBefore_CreatedAtOnly(row, paginator) ==
  TimeLess(row.createdAt, paginator.LastCreatedAt)

\* variant: the cursor's own row passes the filter
CursorBefore_Inclusive(row, paginator) ==
  ~ProductRowLess([createdAt |-> paginator.LastCreatedAt, id |-> paginator.LastID], row)

\* AND (created_at, id) < ($1, $2)
CursorBefore(row, paginator) ==
  ProductRowLess(row, [createdAt |-> paginator.LastCreatedAt, id |-> paginator.LastID])

\* ORDER BY created_at DESC, id DESC on product rows
RECURSIVE OrderProductsDesc(_)
OrderProductsDesc(rows) ==
  IF rows = {} THEN <<>>
  ELSE LET top == CHOOSE r \in rows : \A o \in rows \ {r} : ProductRowLess(o, r)
       IN <<top>> \o OrderProductsDesc(rows \ {top})

\* ProductRepository.List
ProductList(rows, paginator, limit) ==
  LET selected == {rows[i] : i \in {x \in DOMAIN rows :
                      paginator # <<>> => CursorBefore(rows[x], paginator[1])}}
      ordered == OrderProductsDesc(selected)
      n == EffectiveLimit(limit)
  IN IF Len(ordered) <= n THEN ordered ELSE SubSeq(ordered, 1, n)

\* variant: a token that cannot be decoded is ignored
ApplyPagination_IgnoreBadToken(limit, token) ==
  [err |-> NoErr, Limit |-> QueryLimit(limit),
   Paginator |-> IF token = <<>> THEN <<>> ELSE DecodePageToken(token).paginator]

\* Query.ApplyPagination: the limit is set first; an empty token is the
\* first page, a token that cannot be decoded is "invalid page token"
ApplyPagination(limit, token) ==
  IF token = <<>>
  THEN [err |-> NoErr, Limit |-> QueryLimit(limit), Paginator |-> <<>>]
  ELSE IF ~DecodePageToken(token).ok
  THEN [err |-> {"invalid page token"}, Limit |-> QueryLimit(limit), Paginator |-> <<>>]
  ELSE [err |-> NoErr, Limit |-> QueryLimit(limit),
        Paginator |-> DecodePageToken(token).paginator]

\* ProductController.ListProducts for the client's next request: the token of
\* the previous response is decoded, the page is listed, the token of the
\* last row is returned; the client stops at a response without a token.
\* pages counts the calls of the service, bad is a 400 response
ListProducts ==
  /\ ~pg.done
  /\ LET query == ApplyPagination(pg.limit, pg.token)
     IN IF query.err # NoErr
        THEN pg' = [pg EXCEPT !.done = TRUE, !.bad = TRUE]
        ELSE LET page == ProductList(pg.rows, query.Paginator, query.Limit)
                 lastProduct == page[Len(page)]
                 paginator == [LastID |-> lastProduct.id,
                               LastCreatedAt |-> lastProduct.createdAt]
             IN IF Len(page) > 0
                THEN pg' = [pg EXCEPT
                              !.seen = @ \o [i \in 1..Len(page) |-> page[i].id],
                              !.paginator = <<paginator>>,
                              !.token = Encode(paginator),
                              !.pages = @ + 1]
                ELSE pg' = [pg EXCEPT !.token = <<>>, !.pages = @ + 1, !.done = TRUE]
  /\ UNCHANGED <<now, faults, ctxDone, wt, cs, rp, dbVars, writerVars, workerVars>>

\* the tables of at most MaxRows products
PageTables ==
  UNION {{[i \in S |-> NewProduct(i, name, price, f[i])] :
            f \in [S -> PageTimes], name \in Names, price \in Prices} :
         S \in SUBSET (1..MaxRows)}

\* the limits a client asks for; 0 is no limit parameter
PageLimits == 0..(MaxRows - 1)

PageInit ==
  /\ InitCommon
  /\ active = {"k1"}
  /\ cs = NoConsumer
  /\ pg \in {[NoPage EXCEPT !.rows = rows, !.limit = limit, !.done = FALSE] :
               rows \in PageTables, limit \in PageLimits}

PageNext == ListProducts

\* a client pages through a table of products
PageSpec == PageInit /\ [][PageNext]_vars

\* C19: every token that Paginator.Encode builds is decoded by
\* DecodePageToken without an error, to a paginator with the same LastID and
\* the same LastCreatedAt instant.
C19_CursorRoundTrip ==
  pg.token # <<>> =>
    LET decoded == DecodePageToken(pg.token)
    IN /\ decoded.ok
       /\ decoded.paginator # <<>>
       /\ decoded.paginator[1].LastID = pg.paginator[1].LastID
       /\ SameInstant(decoded.paginator[1].LastCreatedAt, pg.paginator[1].LastCreatedAt)

\* a token was built for a timestamp with a fraction, in a zone west of UTC
C19_Witness ==
  /\ pg.token # <<>>
  /\ pg.paginator[1].LastCreatedAt.nsec # 0
  /\ pg.paginator[1].LastCreatedAt.off < 0
  /\ DecodePageToken(pg.token).ok

\* the ids of the whole table in (createdAt DESC, id DESC) order
AllInOrder ==
  LET ordered == OrderProductsDesc({pg.rows[i] : i \in DOMAIN pg.rows})
  IN [i \in 1..Len(ordered) |-> ordered[i].id]

\* C20: a client that follows the page tokens gets every product of the
\* table exactly once, in (createdAt DESC, id DESC) order, also when products
\* share a createdAt: what it has seen is always a prefix of the ordered
\* table, no request fails, and at the end it is the whole table.
C20_PaginationComplete ==
  /\ ~pg.bad
  /\ Len(pg.seen) <= Len(AllInOrder)
  /\ \A i \in 1..Len(pg.seen) : pg.seen[i] = AllInOrder[i]
  /\ pg.done => pg.seen = AllInOrder

\* three products, two of them with the same createdAt, were paged through
\* with a limit smaller than the table
C20_Witness ==
  /\ pg.done
  /\ Len(pg.seen) = 3
  /\ pg.limit \in 1..2
  /\ pg.pages > 2
  /\ \E i, j \in DOMAIN pg.rows :
       i # j /\ SameInstant(pg.rows[i].createdAt, pg.rows[j].createdAt)

\* ------------------------------------------------- requests of any client
\* GET /products?limit=&token= with the limits and tokens a client can send:
\* limits around 0, the default and the maximum; tokens that are empty, not
\* base64, of one or three fields, with a bad timestamp, with a bad id, and
\* well-formed ones; the tables of PageSpec, and for the first page one of
\* more rows than the default limit
RequestInit ==
  LET uuid == <<Sym("uuid", 1, 0)>>
      stamp == FormatTime(CHOOSE t \in PageTimes : t.nsec # 0)
      tokens == {<<>>,
                 <<"raw", <<Sym("digit", 1, 0)>>>>,
                 Base64Encode(<<>>),
                 Base64Encode(uuid),
                 Base64Encode(stamp \o <<Comma>> \o uuid \o <<Comma>> \o uuid),
                 Base64Encode(<<Sym("digit", 1, 0), Comma>> \o uuid),
                 Base64Encode(<<Comma>> \o uuid),
                 Base64Encode(stamp \o <<Comma, Sym("digit", 1, 0)>>),
                 Base64Encode(stamp \o <<Comma>>)}
                \cup {Encode([LastID |-> i, LastCreatedAt |-> t]) :
                        i \in {2}, t \in PageTimes}
      limits == {-1, 0, 1, 2, DefaultPaginationLimit, DefaultPaginationLimit + 1,
                 maxPaginationLimit, maxPaginationLimit + 1}
      bigTable == [i \in 1..(DefaultPaginationLimit + 1) |->
                     NewProduct(i, "Laptop", 1299,
                                CHOOSE t \in PageTimes : t.nsec # 0)]
  IN /\ InitCommon
     /\ active = {"k1"}
     /\ cs = NoConsumer
     /\ pg \in {[NoPage EXCEPT !.rows = rows, !.limit = limit, !.token = token,
                                !.done = FALSE] :
                  rows \in PageTables, limit \in limits, token \in tokens}
                 \cup {[NoPage EXCEPT !.rows = bigTable, !.limit = limit,
                                      !.done = FALSE] :
                        limit \in limits \ {1, 2}}

RequestSpec == RequestInit /\ [][PageNext]_vars

\* C21 (as stated): DecodePageToken answers every token it cannot decode,
\* the empty string, text that is not base64, a wrong number of fields, a
\* bad timestamp or a bad id, with ErrInvalidPaginationToken and a nil
\* paginator.
C21_AlwaysInvalidToken ==
  LET decoded == DecodePageToken(pg.token)
  IN ~decoded.ok =>
       /\ ErrInvalidPaginationToken \subseteq decoded.err
       /\ decoded.paginator = <<>>

\* C22: for a token that is not empty and cannot be decoded ApplyPagination
\* returns an error and leaves the Paginator unset, and ListProducts answers
\* with a client error without calling the service; for the empty token
\* there is no error and the response is the first page of the table.
C22_BadTokenIsClientError ==
  [][LET query == ApplyPagination(pg.limit, pg.token)
     IN /\ (pg.token # <<>> /\ ~DecodePageToken(pg.token).ok) =>
             /\ query.err # NoErr
             /\ query.Paginator = <<>>
             /\ pg'.bad
             /\ pg'.pages = pg.pages
             /\ pg'.seen = pg.seen
        /\ pg.token = <<>> =>
             /\ query.err = NoErr
             /\ query.Paginator = <<>>
             /\ ~pg'.bad
             /\ pg'.pages = pg.pages + 1
             /\ Len(pg'.seen) = Min(Len(AllInOrder), query.Limit)
             /\ pg'.seen = SubSeq(AllInOrder, 1, Len(pg'.seen))]_vars

\* a request with a token that cannot be decoded was answered with a client
\* error although the table has rows
C22_Witness ==
  /\ pg.bad
  /\ pg.token # <<>>
  /\ ~DecodePageToken(pg.token).ok
  /\ pg.pages = 0
  /\ pg.rows # EmptyFn

C24_AbsentIdNotFound ==
  [][\A w \in Writers :
       (/\ wpc[w] \in {"d_find", "d_delete"}
        /\ wpc'[w] # wpc[w]
        /\ wl[w].id \notin DOMAIN products
        /\ faults' = faults) =>
         /\ wpc'[w] = "idle"
         /\ ret' = [op |-> "delete", ok |-> FALSE, err |-> ret'.err]
         /\ "product not found" \in ret'.err
         /\ wpc[w] = "d_find" => ErrNoRows \subseteq ret'.err
         /\ products' = products
         /\ events' = events
         /\ txn'[w] = NoTxn
         /\ usedEids' = usedEids]_vars

\* DeleteProduct returned sql.ErrNoRows wrapped as "product not found" for an
\* id that is not in the table, while another product is
C24_Witness ==
  /\ ret.op = "delete"
  /\ ret.err = Wrap("product not found", ErrNoRows)
  /\ products # EmptyFn
  /\ \A w \in Writers : wpc[w] = "idle"

\* C25: event rows are never deleted and appear only when a CreateProduct
\* or DeleteProduct call commits; a step of CreateProduct or DeleteProduct
\* leaves every existing event row as it is; a step of the worker creates no
\* event row, changes nothing of an event row but status and processedAt,
\* and leaves the product rows as they are.
C25_EventFrame ==
  [][/\ DOMAIN events \subseteq DOMAIN events'
     /\ NewEvents # {} =>
          \E w \in Writers : /\ wpc[w] \in {"c_commit", "d_commit"}
                             /\ wpc'[w] = "idle"
                             /\ ret'.ok
     /\ writerVars' # writerVars =>
          \A e \in DOMAIN events : events'[e] = events[e]
     /\ workerVars' # workerVars =>
          /\ products' = products
          /\ NewEvents = {}
          /\ \A e \in DOMAIN events :
               events'[e] = [events[e] EXCEPT !.status = events'[e].status,
                                              !.processedAt = events'[e].processedAt]]_vars

\* the worker has set an event to processed while a product row and another,
\* pending event exist
C25_Witness ==
  /\ products # EmptyFn
  /\ \E e, f \in DOMAIN events :
       /\ events[e].status = EventStatusProcessed
       /\ events[e].processedAt # NULL
       /\ events[f].status = EventStatusPending

\* C26: the product.deleted event that a DeleteProduct call commits carries
\* the id, the name and the price of the product row which that same commit
\* removes; the worker hands to the publisher the payload of the event row as
\* it was committed, whether or not the product row still exists.
C26_DeletedPayloadFromRow ==
  [][/\ \A e \in NewEvents : events'[e].eventType = "product.deleted" =>
          /\ CanUnmarshal(events'[e].eventData)
          /\ LET msg == Unmarshal(events'[e].eventData)
             IN /\ msg.action = "deleted"
                /\ msg.product_id \in DOMAIN products \ DOMAIN products'
                /\ msg.name = products[msg.product_id].name
                /\ msg.price = products[msg.product_id].price
     /\ \A k \in active : Publishes(k) =>
          LET event == batch[k][idx[k]]
          IN /\ event.id \in DOMAIN events
             /\ event.eventData = events[event.id].eventData
             /\ event.id = tickPub'[k][Len(tickPub'[k])]]_vars

\* a product.deleted event was published with success after its product row
\* was gone
C26_Witness ==
  \E e \in pubOk :
    /\ events[e].eventType = "product.deleted"
    /\ Unmarshal(events[e].eventData).name = "Laptop"
    /\ Unmarshal(events[e].eventData).product_id \notin DOMAIN products

\* C30: an event is processed only if the publisher returned success for it
\* before: every processed event was handed to the publisher and the call
\* succeeded, and the step that sets the status follows a successful publish
\* of that event by the same worker in the same tick.
C30_ProcessedOnlyAfterPublish ==
  /\ \A e \in DOMAIN events :
       events[e].status = EventStatusProcessed => e \in pubOk
  /\ \A k \in active : kpc[k] = "update" /\ ~procErr[k] =>
       /\ Len(tickPub[k]) > 0
       /\ tickPub[k][Len(tickPub[k])] = batch[k][idx[k]].id
       /\ batch[k][idx[k]].id \in pubOk

\* one event is processed after a successful publish while the publish of
\* another event failed
C30_Witness ==
  \E e, f \in DOMAIN events :
    /\ events[e].status = EventStatusProcessed
    /\ e \in pubOk
    /\ f \in pubFail \ pubOk
    /\ events[f].status # EventStatusProcessed

\* ------------------------------------------- notification service: Consumer
MaxMessages == 2

\* variant: every body is accepted
processMessage_AcceptAll(body) == NoErr

\* Consumer.processMessage on a message body: "nil" is a nil Body, "text" is
\* a body that is not JSON, "json" is a marshalled ProductMessage
processMessage(body) ==
  IF body = "nil" THEN {"message body is nil"}
  ELSE IF body = "text" THEN Wrap("failed to unmarshal message", {"invalid character"})
  ELSE NoErr

\* variant: an error of a message ends the batch and is returned
AfterMessage_StopOnError(c, err) ==
  IF err = NoErr /\ c.i < Len(c.batch)
  THEN [c EXCEPT !.i = @ + 1, !.pc = "process"]
  ELSE [c EXCEPT !.pc = "select", !.batch = <<>>, !.i = 0, !.ret = err]

\* receiveMessages after message i of the batch: an error was logged, the
\* range loop goes on, and after the last message nil is returned
AfterMessage(c, err) ==
  IF c.i < Len(c.batch)
  THEN [c EXCEPT !.i = @ + 1, !.pc = "process"]
  ELSE [c EXCEPT !.pc = "select", !.batch = <<>>, !.i = 0, !.ret = NoErr]

\* variant: Start returns the error of receiveMessages
ConsumerSelect_ReturnOnError ==
  /\ cs.pc = "select"
  /\ IF cs.ret # NoErr
     THEN cs' = [cs EXCEPT !.pc = "returned", !.result = cs.ret]
     ELSE IF ctxDone
     THEN cs' = [cs EXCEPT !.pc = "returned", !.result = {"context canceled"}]
     ELSE cs' = [cs EXCEPT !.pc = "receive"]
  /\ UNCHANGED <<now, faults, ctxDone, wt, pg, rp, dbVars, writerVars, workerVars>>

\* Consumer.Start: an error of receiveMessages was logged; the select takes
\* the Done case when the context is cancelled and the default case otherwise
ConsumerSelect ==
  /\ cs.pc = "select"
  /\ IF ctxDone
     THEN cs' = [cs EXCEPT !.pc = "returned", !.result = {"context canceled"}]
     ELSE cs' = [cs EXCEPT !.pc = "receive"]
  /\ UNCHANGED <<now, faults, ctxDone, wt, pg, rp, dbVars, writerVars, workerVars>>

\* receiveMessages: client.ReceiveMessage returns up to 10 of the messages of
\* the queue, in any order, or none when the long poll times out; a message
\* stays in the queue until it is deleted and is delivered again
ConsumerReceive ==
  /\ cs.pc = "receive"
  /\ \/ /\ ~ctxDone /\ NoFault
        /\ \E n \in 0..Cardinality(cs.queue) : \E msgs \in [1..n -> cs.queue] :
             /\ n <= 10
             /\ \A a, b \in 1..n : msgs[a] = msgs[b] => a = b
             /\ cs' = IF n = 0
                      THEN [cs EXCEPT !.pc = "select", !.ret = NoErr]
                      ELSE [cs EXCEPT !.pc = "process", !.batch = msgs, !.i = 1]
     \/ /\ ~ctxDone /\ CanFail /\ Fault
        /\ cs' = [cs EXCEPT !.pc = "select",
                            !.ret = Wrap("failed to receive messages", ErrDriver)]
     \/ /\ ctxDone /\ NoFault
        /\ cs' = [cs EXCEPT !.pc = "select",
                            !.ret = Wrap("failed to receive messages",
                                         {"context canceled"})]
  /\ UNCHANGED <<now, ctxDone, wt, pg, rp, dbVars, writerVars, workerVars>>

\* the range loop of receiveMessages: processMessage, and continue on an error
ConsumerProcess ==
  /\ cs.pc = "process"
  /\ LET message == cs.batch[cs.i]
         err == processMessage(cs.bodies[message])
     IN IF err # NoErr
        THEN cs' = AfterMessage(cs, err)
        ELSE cs' = [cs EXCEPT !.pc = "delete", !.processed = @ \cup {message}]
  /\ UNCHANGED <<now, faults, ctxDone, wt, pg, rp, dbVars, writerVars, workerVars>>

\* the range loop of receiveMessages: deleteMessage after the processing
ConsumerDelete ==
  /\ cs.pc = "delete"
  /\ LET message == cs.batch[cs.i]
     IN \/ /\ ~ctxDone /\ NoFault
           /\ cs' = [AfterMessage(cs, NoErr) EXCEPT !.queue = @ \ {message},
                                                    !.deleted = @ \cup {message}]
        \/ /\ ~ctxDone /\ CanFail /\ Fault
           /\ cs' = AfterMessage(cs, Wrap("failed to delete message", ErrDriver))
        \/ /\ ctxDone /\ NoFault
           /\ cs' = AfterMessage(cs, Wrap("failed to delete message",
                                          {"context canceled"}))
  /\ UNCHANGED <<now, ctxDone, wt, pg, rp, dbVars, writerVars, workerVars>>

\* main returns after cancel() without waiting for Start: the process ends
\* and the goroutine of Start ends where it is
ConsumerExit ==
  /\ ctxDone
  /\ cs.pc \notin {"returned", "exited"}
  /\ cs' = [cs EXCEPT !.pc = "exited"]
  /\ UNCHANGED <<now, faults, ctxDone, wt, pg, rp, dbVars, writerVars, workerVars>>

\* Start is called on a queue of at most MaxMessages messages
ConsumerInit ==
  /\ InitCommon
  /\ active = {"k1"}
  /\ pg = NoPage
  /\ \E n \in 0..MaxMessages : \E bodies \in [1..n -> {"json", "nil", "text"}] :
       cs = [NoConsumer EXCEPT !.pc = "select", !.bodies = bodies, !.queue = 1..n]

ConsumerNext ==
  \/ Cancel
  \/ ConsumerSelect
  \/ ConsumerReceive
  \/ ConsumerProcess
  \/ ConsumerDelete
  \/ ConsumerExit

\* the goroutine of Start keeps running, and the calls of the SQS client
\* return
ConsumerSpec ==
  /\ ConsumerInit
  /\ [][ConsumerNext]_vars
  /\ WF_vars(ConsumerSelect) /\ WF_vars(ConsumerReceive)
  /\ WF_vars(ConsumerProcess) /\ WF_vars(ConsumerDelete)

\* C27: the consumer deletes a message only after processMessage succeeded
\* for it: a deleted message was processed with success, a message with a
\* nil body or a body that is not JSON is never deleted and stays in the
\* queue, and DeleteMessage is called only for the message just processed.
C27_DeleteOnlyAfterProcessing ==
  /\ cs.deleted \subseteq cs.processed
  /\ \A m \in DOMAIN cs.bodies :
       cs.bodies[m] # "json" => m \notin cs.deleted /\ m \in cs.queue
  /\ cs.pc = "delete" => cs.batch[cs.i] \in cs.processed

\* a batch of a message without a body and a well-formed one is done: the
\* well-formed one is deleted, the other one is still in the queue
C27_Witness ==
  /\ cs.pc = "select"
  /\ \E m, o \in DOMAIN cs.bodies :
       /\ cs.bodies[m] = "nil"
       /\ m \in cs.queue
       /\ cs.bodies[o] = "json"
       /\ o \in cs.deleted
       /\ o \notin cs.queue

\* C28: in a batch the failure of processMessage or of deleteMessage for one
\* message does not stop the rest: the loop goes on with the next message,
\* receiveMessages returns only after the last one and then returns nil; it
\* returns an error only when ReceiveMessage failed.
C28_BatchContinues ==
  [][LET failed == \/ cs.pc = "process" /\ processMessage(cs.bodies[cs.batch[cs.i]]) # NoErr
                   \/ cs.pc = "delete" /\ cs'.deleted = cs.deleted
         stepped == cs' # cs /\ cs'.pc # "exited"
     IN /\ (stepped /\ failed /\ cs.i < Len(cs.batch)) =>
             /\ cs'.pc = "process"
             /\ cs'.i = cs.i + 1
             /\ cs'.batch = cs.batch
        /\ (stepped /\ cs.pc \in {"process", "delete"} /\ cs'.pc = "select") =>
             /\ cs.i = Len(cs.batch)
             /\ cs'.ret = NoErr
        /\ (stepped /\ cs'.ret # NoErr /\ cs'.ret # cs.ret) =>
             /\ cs.pc = "receive"
             /\ "failed to receive messages" \in cs'.ret]_vars

\* the first message of a batch failed, in processMessage or in
\* deleteMessage, and the second one was processed and is about to be deleted
C28_Witness ==
  /\ cs.pc = "delete"
  /\ cs.i = 2
  /\ cs.batch[1] \notin cs.deleted
  /\ cs.batch[2] \in cs.processed

\* C29: Start keeps polling after an error of receiveMessages; it returns
\* only when its context is cancelled and then returns the context's error;
\* once the context is cancelled Start eventually returns.
C29_StartReturnsOnCancel ==
  /\ [](cs.pc = "returned" => ctxDone /\ cs.result = {"context canceled"})
  /\ [][(cs.pc = "select" /\ ~ctxDone /\ cs' # cs) => cs'.pc = "receive"]_vars
  /\ []((cs.pc = "select" /\ cs.ret # NoErr) => <>(cs.pc = "receive" \/ ctxDone))
  /\ [](ctxDone => <>(cs.pc \in {"returned", "exited"}))

\* Start returned by itself after the cancellation; before that a
\* ReceiveMessage call had failed and a later poll deleted a message
C29_Witness ==
  /\ cs.pc = "returned"
  /\ cs.result = {"context canceled"}
  /\ faults > 0
  /\ ErrDriver \subseteq cs.ret
  /\ cs.deleted # {}

\* C31 (as stated): with one worker an event is handed to the publisher at
\* most once over the whole execution, also when the status update after a
\* publish fails.
C31_PublishedAtMostOnce ==
  [][\A k \in active : Publishes(k) =>
       batch[k][idx[k]].id \notin pubOk \cup pubFail]_vars

\* C31 (amended): with one worker an event is handed to the publisher at most
\* once in a tick, and again in a later tick only while it is still pending,
\* which it is only after a status update for it failed.
C31_PublishedAgainOnlyWhilePending ==
  [][\A k \in active : Publishes(k) =>
       LET e == batch[k][idx[k]].id
       IN /\ \A i \in 1..Len(tickPub[k]) : tickPub[k][i] # e
          /\ e \in pubOk \cup pubFail =>
               /\ events[e].status = EventStatusPending
               /\ faults > 0]_vars

\* an event was published with success, its status update failed, and a
\* later tick handed it to the publisher again
C31_Witness ==
  \E e \in pubOk \cap pubFail :
    /\ faults = MaxFaults
    /\ \E k \in active : kpc[k] = "update" /\ batch[k][idx[k]].id = e

\* C32 (as stated): with two workers the recorded status of an event still
\* changes at most once: processed is never overwritten by failed, failed
\* never by processed, and a processedAt that is set is never rewritten.
C32_StatusWrittenOnce ==
  [][\A e \in DOMAIN events :
       /\ ~(/\ events[e].status = EventStatusProcessed
            /\ events'[e].status = EventStatusFailed)
       /\ ~(/\ events[e].status = EventStatusFailed
            /\ events'[e].status = EventStatusProcessed)
       /\ events[e].processedAt # NULL =>
            events'[e].processedAt = events[e].processedAt]_vars

\* C33 (as stated): for a product that was created and later deleted, the
\* worker hands the product.created message to the publisher before the
\* product.deleted message, also when both events are in one batch.
C33_CreatedBeforeDeleted ==
  [][\A k \in active : Publishes(k) =>
       LET event == batch[k][idx[k]]
       IN event.eventType = "product.deleted" =>
            \A c \in EventsFor(events, "product.created",
                               Unmarshal(event.eventData).product_id) :
              c \in pubOk \cup pubFail]_vars

\* ------------------------------------------- deletes of an existing product
\* the product service on a table that holds a product created earlier,
\* whose product.created event has left the events table
DeleteRaceInit ==
  /\ now = 0
  /\ faults = 0
  /\ products = (1 :> NewProduct(1, "Laptop", 1299, 0))
  /\ events = EmptyFn
  /\ usedPids = {1}
  /\ usedEids = {}
  /\ wpc = [w \in Writers |-> "idle"]
  /\ wl = [w \in Writers |-> NoLocals]
  /\ txn = [w \in Writers |-> NoTxn]
  /\ ret = NoRet
  /\ committed = {<<"created", 1>>}
  /\ kpc = [k \in AllWorkers |-> "wait"]
  /\ batch = [k \in AllWorkers |-> <<>>]
  /\ idx = [k \in AllWorkers |-> 0]
  /\ procErr = [k \in AllWorkers |-> FALSE]
  /\ tickPub = [k \in AllWorkers |-> <<>>]
  /\ pubOk = {}
  /\ pubFail = {}
  /\ ctxDone = FALSE
  /\ wt = NoCall
  /\ rp = NoRepo
  /\ active = {"k1"}
  /\ pg = NoPage
  /\ cs = NoConsumer

DeleteRaceSpec ==
  /\ DeleteRaceInit
  /\ [][Next]_vars

C35_TransactionEndedOnce ==
  [][\A w \in Writers :
       /\ wpc[w] # "idle" => txn[w].open
       /\ wpc'[w] = "idle" => txn'[w] = NoTxn
       /\ (txn[w].open /\ ~txn'[w].open) => CreateReturns(w) \/ DeleteReturns(w)
       /\ (CreateReturns(w) \/ DeleteReturns(w)) =>
            IF ret'.ok
            THEN /\ wpc[w] \in {"c_commit", "d_commit"}
                 /\ products' = CommitProducts(w)
                 /\ events' = CommitEvents(w)
            ELSE /\ products' = products
                 /\ events' = events]_vars

\* a call returned an error after its transaction had written a product row,
\* while the transaction of the other call is still open; nothing is
\* committed
C35_Witness ==
  /\ ~ret.ok
  /\ ret.op = "create"
  /\ usedPids # {}
  /\ products = EmptyFn
  /\ \E w, v \in Writers :
       /\ wpc[w] = "idle" /\ ~txn[w].open
       /\ wpc[v] # "idle" /\ txn[v].open /\ txn[v].prodIns # EmptyFn

\* ------------------------------- concurrent calls of WithinTransaction
MaxRepoRows == 3

\* getExecutor of a repository whose txn field is tx: the transaction if it
\* is set, the database otherwise
getExecutor(tx) == IF tx # <<>> THEN tx[1] ELSE "db"

\* Create through an executor: a row written through a transaction is in
\* that transaction, a row written through the database is committed at once
Create(executor, row) ==
  IF executor = "db"
  THEN [rp EXCEPT !.table = @ \cup {row}, !.n = row]
  ELSE [rp EXCEPT !.tx[executor] = <<@[1] \cup {row}>>, !.n = row]

\* variant: WithinTransaction binds the repository it is called on
RepoBegin_BindsReceiver(c) ==
  /\ rp.tx[c] = <<>>
  /\ rp' = [rp EXCEPT !.tx[c] = <<{}>>, !.txn = <<c>>]
  /\ UNCHANGED <<now, faults, ctxDone, wt, pg, cs, dbVars, writerVars, workerVars>>

\* r.db.BeginTx and txRepo := &ProductRepository{db: r.db, txn: tx}
RepoBegin(c) ==
  /\ rp.tx[c] = <<>>
  /\ rp' = [rp EXCEPT !.tx[c] = <<{}>>]
  /\ UNCHANGED <<now, faults, ctxDone, wt, pg, cs, dbVars, writerVars, workerVars>>

\* fn calls txRepo.Create
RepoTxCreate(c) ==
  /\ rp.tx[c] # <<>>
  /\ rp.n < MaxRepoRows
  /\ rp' = Create(getExecutor(<<c>>), rp.n + 1)
  /\ UNCHANGED <<now, faults, ctxDone, wt, pg, cs, dbVars, writerVars, workerVars>>

\* another goroutine calls Create on the repository itself
RepoBaseCreate ==
  /\ rp.n < MaxRepoRows
  /\ rp' = Create(getExecutor(rp.txn), rp.n + 1)
  /\ UNCHANGED <<now, faults, ctxDone, wt, pg, cs, dbVars, writerVars, workerVars>>

\* fn returns an error and tx.Rollback() drops the rows of the transaction,
\* or fn returns nil and tx.Commit() makes them rows of the table
RepoEnd(c) ==
  /\ rp.tx[c] # <<>>
  /\ \/ rp' = [rp EXCEPT !.tx[c] = <<>>]
     \/ rp' = [rp EXCEPT !.tx[c] = <<>>, !.table = @ \cup rp.tx[c][1]]
  /\ UNCHANGED <<now, faults, ctxDone, wt, pg, cs, dbVars, writerVars, workerVars>>

RepoNext ==
  \/ \E c \in Callers : RepoBegin(c)
  \/ \E c \in Callers : RepoTxCreate(c)
  \/ RepoBaseCreate
  \/ \E c \in Callers : RepoEnd(c)

\* goroutines that share one repository
RepoSpec == Init /\ [][RepoNext]_vars

\* C36: WithinTransaction leaves the repository it is called on not bound to
\* a transaction; concurrent calls have transactions of their own, with no
\* row in two of them; a Create on the repository itself meanwhile is
\* committed at once, outside every transaction; and the end of a call, a
\* rollback included, removes no committed row and changes no other
\* transaction.
C36_ReceiverUnchanged ==
  [][/\ rp.txn = <<>> /\ rp'.txn = <<>>
     /\ rp.table \subseteq rp'.table
     /\ \A c, d \in Callers :
          (c # d /\ rp'.tx[c] # <<>> /\ rp'.tx[d] # <<>>) =>
            rp'.tx[c][1] \cap rp'.tx[d][1] = {}
     /\ \A c \in Callers :
          (rp.tx[c] # <<>> /\ rp'.tx[c] = <<>>) =>
            /\ rp'.table \in {rp.table, rp.table \cup rp.tx[c][1]}
            /\ \A d \in Callers \ {c} : rp'.tx[d] = rp.tx[d]
     /\ (rp'.n # rp.n /\ rp'.tx = rp.tx) => rp'.table = rp.table \cup {rp'.n}]_vars

\* both calls are in their transactions with rows of their own while a row
\* written through the repository itself is committed
C36_Witness ==
  /\ rp.tx["a"] # <<>> /\ rp.tx["b"] # <<>>
  /\ rp.tx["a"][1] # {} /\ rp.tx["b"][1] # {}
  /\ rp.table # {}

\* --------------------------------------- paging while the table changes
MaxChurn == 1

\* CreateProduct commits while the client pages: a row with a new id and any
\* created_at; born records whether its sort key is above the cursor the
\* client holds
PageInsert ==
  /\ ~pg.done
  /\ Cardinality(DOMAIN pg.born) < MaxChurn
  /\ \E id \in (1..(MaxRows + 1)) \ (DOMAIN pg.rows \cup pg.gone), t \in PageTimes :
       LET row == NewProduct(id, "Laptop", 1299, t)
           newer == /\ pg.paginator # <<>>
                    /\ ProductRowLess([createdAt |-> pg.paginator[1].LastCreatedAt,
                                       id |-> pg.paginator[1].LastID], row)
       IN pg' = [pg EXCEPT !.rows = (id :> row) @@ @, !.born = (id :> newer) @@ @]
  /\ UNCHANGED <<now, faults, ctxDone, wt, cs, rp, dbVars, writerVars, workerVars>>

\* DeleteProduct commits while the client pages
PageDelete ==
  /\ ~pg.done
  /\ Cardinality(pg.gone) < MaxChurn
  /\ \E id \in DOMAIN pg.rows :
       pg' = [pg EXCEPT !.rows = [i \in DOMAIN @ \ {id} |-> @[i]],
                        !.gone = @ \cup {id}]
  /\ UNCHANGED <<now, faults, ctxDone, wt, cs, rp, dbVars, writerVars, workerVars>>

ChurnNext ==
  \/ ListProducts
  \/ PageInsert
  \/ PageDelete

\* a client pages through a table while products are created and deleted
ChurnSpec == PageInit /\ [][ChurnNext]_vars

\* C37: while products are created and deleted during a traversal, no
\* product is returned twice, a product created with a sort key above the
\* client's cursor is on no later page, and at the end every product that
\* was in the table during the whole traversal has been returned.
C37_StableUnderWrites ==
  /\ \A i, j \in 1..Len(pg.seen) : pg.seen[i] = pg.seen[j] => i = j
  /\ \A id \in DOMAIN pg.born :
       pg.born[id] => \A i \in 1..Len(pg.seen) : pg.seen[i] # id
  /\ pg.done =>
       \A id \in DOMAIN pg.rows \ DOMAIN pg.born :
         \E i \in 1..Len(pg.seen) : pg.seen[i] = id

\* the traversal ended after a product was created above the cursor and an
\* unseen product was deleted meanwhile; the products that stayed were seen
C37_Witness ==
  /\ pg.done
  /\ pg.pages > 2
  /\ \E id \in DOMAIN pg.born : pg.born[id] /\ id \in DOMAIN pg.rows
  /\ \E id \in pg.gone : \A i \in 1..Len(pg.seen) : pg.seen[i] # id
  /\ Len(pg.seen) >= 2

\* ------------------------------------------- the end of a traversal
\* the client keeps following the token of the page it received: weak
\* fairness of ListProducts, whose enabling condition is ~pg.done
FairPageSpec == PageSpec /\ ([]<>pg.done \/ []<><<ListProducts>>_vars)

\* C38: on a table that does not change, every page's cursor is below the
\* previous page's cursor in (createdAt, id), a page carries a token exactly
\* when it has rows, the number of pages is at most the number of rows plus
\* one, and the traversal reaches an empty page without a token.
C38_TraversalTerminates ==
  /\ [][LET n == Len(pg'.seen) - Len(pg.seen)
            cursor(p) == [createdAt |-> p[1].LastCreatedAt, id |-> p[1].LastID]
        IN /\ pg'.pages = pg.pages + 1
           /\ (pg'.token # <<>>) <=> (n > 0)
           /\ pg'.done <=> (n = 0)
           /\ n > 0 => pg'.token = Encode(pg'.paginator[1])
           /\ (n > 0 /\ pg.paginator # <<>>) =>
                ProductRowLess(cursor(pg'.paginator), cursor(pg.paginator))
           /\ pg'.pages <= Cardinality(DOMAIN pg.rows) + 1]_vars
  /\ <>(pg.done /\ pg.token = <<>> /\ ~pg.bad)

\* a traversal of three pages with rows ended with a fourth, empty page
C38_Witness ==
  /\ pg.done
  /\ ~pg.bad
  /\ pg.token = <<>>
  /\ pg.pages = 4
  /\ Len(pg.seen) = Cardinality(DOMAIN pg.rows)
  /\ pg.limit = 1

\* ------------------------------ an event row that is not a ProductMessage
\* event_data is a JSONB column: a row written by anything but the product
\* service can hold JSON that json.Unmarshal rejects for ProductMessage,
\* such as an array
\* the id of that row, none of the ids the product service hands out
CorruptId == MaxEvents + 1

CorruptInit ==
  /\ now = 0
  /\ faults = 0
  /\ products = EmptyFn
  /\ events = (CorruptId :> NewEvent(CorruptId, "product.created", <<"[]">>, "", 0))
  /\ usedEids = {}
  /\ usedPids = {}
  /\ wpc = [w \in Writers |-> "idle"]
  /\ wl = [w \in Writers |-> NoLocals]
  /\ txn = [w \in Writers |-> NoTxn]
  /\ ret = NoRet
  /\ committed = {}
  /\ kpc = [k \in AllWorkers |-> "wait"]
  /\ batch = [k \in AllWorkers |-> <<>>]
  /\ idx = [k \in AllWorkers |-> 0]
  /\ procErr = [k \in AllWorkers |-> FALSE]
  /\ tickPub = [k \in AllWorkers |-> <<>>]
  /\ pubOk = {}
  /\ pubFail = {}
  /\ ctxDone = FALSE
  /\ wt = NoCall
  /\ rp = NoRepo
  /\ active = {"k1"}
  /\ pg = NoPage
  /\ cs = NoConsumer

\* the product service and its worker with such a row in the events table
CorruptSpec == CorruptInit /\ [][Next]_vars

====
